---- MODULE Spec2Model ----
(***************************************************************************)
(* Parallel-coordinates page: the generic script (src/script.js) and the   *)
(* static-table script (src/unnamed/part_000) driven by the same sequence  *)
(* of browser events (clicks, fetch outcomes, resize events, timers).      *)
(***************************************************************************)
EXTENDS Integers, Sequences, FiniteSets, TLC

(***************************************************************************)
(* Bounds of the model.                                                    *)
(***************************************************************************)
\* loadDataset calls per run (the one at page load plus the clicks)
MaxLoads == 2
\* largest step by which the clock advances
TickMs == 125
\* rows of the one-column datasets drawn exhaustively
MaxRows == 2
\* rows and keys of the several-column datasets drawn exhaustively
MaxShapeRows == 1
MaxDims == 3

(***************************************************************************)
(* JSON values of flat records, and JavaScript numbers.                    *)
(***************************************************************************)
Null == [kind |-> "null", n |-> 0, s |-> ""]
Undefined == [kind |-> "undefined", n |-> 0, s |-> ""]
Num(n) == [kind |-> "number", n |-> n, s |-> ""]
Str(s) == [kind |-> "string", n |-> 0, s |-> s]

\* a JavaScript number: a finite rational num/den, NaN, +Infinity or -Infinity
Fin(n) == [k |-> "fin", num |-> n, den |-> 1]
NaN == [k |-> "nan", num |-> 0, den |-> 1]
PosInf == [k |-> "inf", num |-> 0, den |-> 1]
NegInf == [k |-> "ninf", num |-> 0, den |-> 1]

Range(seq) == {seq[i] : i \in 1..Len(seq)}

\* a record: its keys in insertion order (distinct), and the value of each
Row(keys, vals) ==
  [keys |-> keys,
   val |-> [k \in Range(keys) |-> vals[CHOOSE i \in 1..Len(keys) : keys[i] = k]]]

\* Object.keys(row)
ObjectKeys(row) == row.keys

\* row[dim]: the value of the property, undefined when the record has no such key
Get(row, dim) == IF dim \in DOMAIN row.val THEN row.val[dim] ELSE Undefined

\* v !== undefined && v !== null
Present(v) == v # Undefined /\ v # Null

\* Number(s) for the strings of the model: "" is 0, a decimal numeral is its
\* value, "Infinity" is +Infinity, any other text is NaN
StringToNumber(s) ==
  CASE s = "" -> Fin(0)
    [] s = "7" -> Fin(7)
    [] s = "Infinity" -> PosInf
    [] OTHER -> NaN

\* Number(v)
ToNumber(v) ==
  CASE v.kind = "number" -> Fin(v.n)
    [] v.kind = "null" -> Fin(0)
    [] v.kind = "undefined" -> NaN
    [] OTHER -> StringToNumber(v.s)

isNaN(num) == num.k = "nan"
isFinite(num) == num.k = "fin"

(***************************************************************************)
(* script.js: schema inference.                                            *)
(***************************************************************************)
extractDimensionsLastRecord(data) ==
  IF Len(data) = 0 THEN <<>> ELSE ObjectKeys(data[Len(data)])

\* !data || data.length === 0 ? [] : Object.keys(data[0])
extractDimensions(data) ==
  IF Len(data) = 0 THEN <<>> ELSE ObjectKeys(data[1])

\* data.map(d => d[dim]).filter(v => v !== undefined && v !== null)
ColumnValues(data, dim) ==
  LET col == [i \in 1..Len(data) |-> Get(data[i], dim)]
  IN SelectSeq(col, Present)

IsNumericColumnNoLength(values) ==
  \A i \in 1..Len(values) :
    LET num == ToNumber(values[i]) IN ~isNaN(num) /\ isFinite(num)

\* values.length > 0 && values.every(v => !isNaN(Number(v)) && isFinite(Number(v)))
IsNumericColumn(values) ==
  /\ Len(values) > 0
  /\ \A i \in 1..Len(values) :
       LET num == ToNumber(values[i]) IN ~isNaN(num) /\ isFinite(num)

detectDataTypes(data, dimensions) ==
  [dim \in Range(dimensions) |->
     IF IsNumericColumn(ColumnValues(data, dim)) THEN "numeric" ELSE "nominal"]

(***************************************************************************)
(* part_000: the static tables.                                            *)
(***************************************************************************)
Years == {2012, 2019}

dimensions ==
  [year \in Years |->
     IF year = 2012
       THEN <<"gpa", "credits_attempted", "credits_passed", "current_credits",
              "age", "gender">>
       ELSE <<"gender", "age_range", "credits_attempted", "credits_passed",
              "gpa", "grad_year", "home", "major">>]

dataTypes ==
  [year \in Years |->
     IF year = 2012
       THEN [gpa |-> "numeric", credits_attempted |-> "numeric",
             credits_passed |-> "numeric", current_credits |-> "numeric",
             age |-> "numeric", gender |-> "nominal"]
       ELSE [gender |-> "nominal", age_range |-> "nominal",
             credits_attempted |-> "numeric", credits_passed |-> "numeric",
             gpa |-> "numeric", grad_year |-> "numeric", home |-> "nominal",
             major |-> "nominal"]]

(***************************************************************************)
(* Both scripts: colour rule, scales, layout and drawing.                  *)
(***************************************************************************)
getLineColor(d) ==
  CASE Get(d, "gender") = Str("M") -> "#1f77b4"
    [] Get(d, "gender") = Str("F") -> "#ff7f0e"
    [] OTHER -> "#999"

Max(a, b) == IF a >= b THEN a ELSE b
Min(a, b) == IF a <= b THEN a ELSE b
\* Math.ceil(a / b) for a >= 0, b > 0
CeilDiv(a, b) == (a + b - 1) \div b

\* a <= b on JavaScript numbers that are not NaN
JsLeq(a, b) ==
  \/ a.k = "ninf"
  \/ b.k = "inf"
  \/ a.k = "fin" /\ b.k = "fin" /\ a.num * b.den <= b.num * a.den

\* Math.min(...values): +Infinity of no values, NaN if any converts to NaN
MathMin(values) ==
  LET nums == {ToNumber(v) : v \in Range(values)}
  IN IF \E x \in nums : isNaN(x) THEN NaN
     ELSE IF nums = {} THEN PosInf
     ELSE CHOOSE x \in nums : \A y \in nums : JsLeq(x, y)

\* Math.max(...values): -Infinity of no values, NaN if any converts to NaN
MathMax(values) ==
  LET nums == {ToNumber(v) : v \in Range(values)}
  IN IF \E x \in nums : isNaN(x) THEN NaN
     ELSE IF nums = {} THEN NegInf
     ELSE CHOOSE x \in nums : \A y \in nums : JsLeq(y, x)

\* String(v) for the numbers 0..9 and the strings of the model
Numerals == <<"0", "1", "2", "3", "4", "5", "6", "7", "8", "9">>
StringOf(v) == IF v.kind = "number" THEN Numerals[v.n + 1] ELSE v.s

\* the strings of the model in UTF-16 code unit order
StringOrder ==
  <<"", "0", "1", "2", "3", "4", "5", "6", "7", "8", "9",
    "F", "Infinity", "M", "abc">>
StringRank(s) == CHOOSE i \in 1..Len(StringOrder) : StringOrder[i] = s

\* [...new Set(values)]: the distinct values in order of first occurrence
RECURSIVE Distinct(_)
Distinct(values) ==
  IF values = <<>> THEN <<>>
  ELSE LET front == Distinct(SubSeq(values, 1, Len(values) - 1))
           last == values[Len(values)]
       IN IF last \in Range(front) THEN front ELSE Append(front, last)

\* Array.prototype.sort() without comparator: stable, by the string forms
RECURSIVE SortByString(_)
SortByString(values) ==
  IF values = <<>> THEN <<>>
  ELSE LET front == SortByString(SubSeq(values, 1, Len(values) - 1))
           last == values[Len(values)]
           keep == {i \in 1..Len(front) :
                      StringRank(StringOf(front[i])) <= StringRank(StringOf(last))}
           k == Cardinality(keep)
       IN SubSeq(front, 1, k) \o <<last>> \o SubSeq(front, k + 1, Len(front))

\* the scale of one dimension (the d3 scale is kept as its kind and domain)
BuildScale(data, dim, type) ==
  LET values == ColumnValues(data, dim)
  IN IF type = "numeric"
       THEN [kind |-> "linear", domain |-> <<MathMin(values), MathMax(values)>>]
       ELSE [kind |-> "point", domain |-> SortByString(Distinct(values))]

\* containerWidth - margin.left - margin.right, against dims.length * 100
PaddingPx == 40
MarginSide == 180
PerAxisPx == 100
LayoutWidth(clientWidth, n) ==
  Max((clientWidth - PaddingPx) - MarginSide - MarginSide, n * PerAxisPx)

\* Math.max(400, Math.min(600, Math.ceil(records / 15) * 1)) + 200
LayoutHeight(records) == Max(400, Min(600, CeilDiv(records, 15) * 1)) + 200

\* (width / (dims.length - 1)) * i in floating point: x / 0 is +Infinity for
\* x > 0, and Infinity * 0 is NaN
xPosition(width, n, i) ==
  IF n - 1 = 0
    THEN (IF i = 0 THEN NaN ELSE PosInf)
    ELSE [k |-> "fin", num |-> width * i, den |-> n - 1]

\* the vertices of one record: one per dimension whose value is present, in
\* the order of the dimensions
Points(row, dims, width) ==
  LET n == Len(dims)
      all == [j \in 1..n |-> [x |-> xPosition(width, n, j - 1),
                              y |-> [dim |-> dims[j], value |-> Get(row, dims[j])]]]
  IN SelectSeq(all, LAMBDA p : Present(p.y.value))

DrawsPathFromOnePoint(points) == Len(points) > 0

\* points.length > 1
DrawsPath(points) == Len(points) > 1

HasPath(line) == DrawsPath(line.d)

\* the path elements appended for the records, in record order
Paths(data, dims, width) ==
  LET lines == [r \in 1..Len(data) |->
                  [d |-> Points(data[r], dims, width),
                   stroke |-> getLineColor(data[r])]]
  IN SelectSeq(lines, HasPath)

\* one axis: line and label at xPosition, ticks from the scale
Axis(data, dims, types, width, i) ==
  LET scale == BuildScale(data, dims[i], types[dims[i]])
  IN [x |-> xPosition(width, Len(dims), i - 1),
      label |-> dims[i],
      type |-> types[dims[i]],
      scale |-> scale,
      ticks |-> IF types[dims[i]] = "numeric" THEN 5 ELSE Len(scale.domain)]

\* the svg element drawVisualization appends
Svg(dims, types, data, clientWidth) ==
  LET width == LayoutWidth(clientWidth, Len(dims))
      height == LayoutHeight(Len(data))
  IN [kind |-> "svg",
      svgWidth |-> width + MarginSide + MarginSide,
      svgHeight |-> height + 50 + 20,
      axes |-> [i \in 1..Len(dims) |-> Axis(data, dims, types, width, i)],
      paths |-> Paths(data, dims, width),
      legendX |-> width + 20,
      records |-> Len(data)]

ErrorP == [kind |-> "error", text |-> "Error loading dataset"]
Placeholder == [kind |-> "placeholder"]

\* currentDataset = null
NoDataset == 0

\* a drawVisualization that appends its chart to what the container holds
drawVisualizationNoClear(children, dims, types, data, clientWidth) ==
  Append(children, Svg(dims, types, data, clientWidth))

\* script.js drawVisualization: the children of the container on return
drawVisualization(children, dims, types, data, clientWidth) ==
  LET cleared == <<>>
  IN Append(cleared, Svg(dims, types, data, clientWidth))

\* part_000 drawVisualization: dimensions[null] is undefined, and dims.length
\* then throws after the container has been emptied
drawVisualizationStatic(children, dataset, data, clientWidth) ==
  LET cleared == <<>>
  IN IF dataset \in Years
       THEN Append(cleared, Svg(dimensions[dataset], dataTypes[dataset], data, clientWidth))
       ELSE cleared

(***************************************************************************)
(* The files the server may return, and the exhaustive bounded datasets.   *)
(***************************************************************************)
D2012 ==
  <<Row(dimensions[2012], <<Num(3), Num(9), Num(8), Num(4), Num(9), Str("M")>>),
    Row(dimensions[2012], <<Str("7"), Num(7), Null, Num(5), Num(8), Str("F")>>)>>

\* a file whose records have a single key
DOneKey == <<Row(<<"gender">>, <<Str("M")>>)>>

D2019 ==
  <<Row(dimensions[2019],
        <<Str("F"), Str("abc"), Num(9), Num(9), Num(3), Num(9), Str("abc"), Str("M")>>),
    Row(SubSeq(dimensions[2019], 1, 7),
        <<Str("M"), Str("F"), Num(6), Num(5), Num(2), Num(8), Null>>)>>

\* the 2019 keys with an age_range column that holds numbers
D2019AgeNumeric ==
  <<Row(dimensions[2019],
        <<Str("F"), Num(2), Num(9), Num(9), Num(3), Num(9), Str("abc"), Str("M")>>)>>

Files(year) == IF year = 2012 THEN {D2012, DOneKey} ELSE {D2019, D2019AgeNumeric}

Widths == {300, 1300}

\* the values a cell may hold; Undefined stands for a key the record lacks
TypeVals == {Undefined, Null, Num(1), Str("7"), Str(""), Str("abc"), Str("Infinity")}
ShapeVals == {Undefined, Null, Num(1)}
KeyPool == <<"gpa", "age", "gender", "home">>

\* the record holding, in key order, the cells of `cells` that are not Undefined
RowOf(keys, cells) ==
  LET kept == {i \in 1..Len(keys) : cells[i] # Undefined}
      has(k) == \E i \in kept : keys[i] = k
  IN [keys |-> SelectSeq(keys, has),
      val |-> [k \in {keys[i] : i \in kept} |->
                 cells[CHOOSE i \in kept : keys[i] = k]]]

SeqsUpTo(S, n) == UNION {[1..m -> S] : m \in 0..n}

RowsOver(keys, vals) == {RowOf(keys, cells) : cells \in [1..Len(keys) -> vals]}

TypeDatasets == SeqsUpTo(RowsOver(<<"gpa">>, TypeVals), MaxRows)
ShapeDatasets ==
  SeqsUpTo(RowsOver(SubSeq(KeyPool, 1, Min(MaxDims, Len(KeyPool))), ShapeVals),
           MaxShapeRows)
BoundedDatasets == TypeDatasets \cup ShapeDatasets

(***************************************************************************)
(* State.                                                                  *)
(***************************************************************************)
VARIABLES
  currentDataset,     \* script.js: null (NoDataset) or the year loaded
  currentData,        \* script.js: the parsed records
  currentDimensions,  \* script.js: the axis labels
  currentDataTypes,   \* script.js: dimension -> "numeric" | "nominal"
  container,          \* script.js page: children of #visualization
  fixedPage,          \* part_000 page: currentDataset, currentData, container
  active,             \* the buttons carrying the class "active"
  clientWidth,        \* container.clientWidth
  loads,              \* the loadDataset calls suspended at an await
  started,            \* number of loadDataset calls made
  timers,             \* the scheduled timeouts: [id, left] with left in ms
  resizeTimeout,      \* the handle kept by the resize listener (0: undefined)
  sinceResize,        \* ms since the last resize event, saturating at ResizeDelay
  burst,              \* history: the current burst of resize events: whether it
                      \* has none, one or several events, the redraws it caused,
                      \* and whether a dataset was loaded when it began
  lastResolved,       \* history: the load whose response was parsed last, and
                      \* in `prev` the id of the one parsed before it (0: none)
  escaped,            \* ids of the loadDataset calls whose promise rejected
  lastClicked         \* history: the button clicked last (NoDataset: none)

slots == <<currentDataset, currentData, currentDimensions, currentDataTypes>>
pages == <<slots, container, fixedPage>>
timing == <<timers, resizeTimeout, sinceResize, burst>>
loading == <<loads, started, lastResolved, escaped>>
ui == <<active, lastClicked>>
vars == <<pages, timing, loading, ui, clientWidth>>

\* setTimeout(..., 250)
ResizeDelay == 250

\* the elements matched by querySelectorAll(".dataset-btn"): btn-2012, btn-2019
DatasetBtns == Years

\* if (currentDataset): null is falsy, a year is truthy
Truthy(dataset) == dataset # NoDataset

Init ==
  /\ currentDataset = NoDataset
  /\ currentData = <<>>
  /\ currentDimensions = <<>>
  /\ currentDataTypes = [dim \in {} |-> "nominal"]
  /\ container \in {<<>>, <<Placeholder>>}
  /\ fixedPage = [currentDataset |-> NoDataset, currentData |-> <<>>,
                  container |-> container]
  /\ active \in SUBSET DatasetBtns
  /\ clientWidth \in Widths
  /\ loads = {[id |-> 1, year |-> 2012, pc |-> "fetch"]}
  /\ started = 1
  /\ timers = {}
  /\ resizeTimeout = 0
  /\ sinceResize = ResizeDelay
  /\ burst = [events |-> "none", redraws |-> 0, loaded |-> FALSE]
  /\ lastResolved = [id |-> 0, year |-> NoDataset, data |-> <<>>, prev |-> 0]
  /\ escaped = {}
  /\ lastClicked = NoDataset

(***************************************************************************)
(* loadDataset.                                                            *)
(***************************************************************************)
\* a call of loadDataset(year): runs up to `await fetch(...)`
StartLoad(year) ==
  /\ started' = started + 1
  /\ loads' = loads \cup {[id |-> started + 1, year |-> year, pc |-> "fetch"]}

\* the fetch resolves; the call now awaits response.json()
FetchOk(id) ==
  /\ \E l \in loads :
       /\ l.id = id
       /\ l.pc = "fetch"
       /\ loads' = (loads \ {l}) \cup {[l EXCEPT !.pc = "json"]}
  /\ UNCHANGED <<pages, timing, ui, clientWidth, started, lastResolved, escaped>>

\* a response that is applied only when no later call has been made
JsonOkLatestOnly(id, data) ==
  /\ \E l \in loads :
       /\ l.id = id
       /\ l.pc = "json"
       /\ loads' = loads \ {l}
       /\ lastResolved' = [id |-> id, year |-> l.year, data |-> data,
                          prev |-> lastResolved.id]
       /\ IF id = started
            THEN /\ currentData' = data
                 /\ currentDataset' = l.year
                 /\ currentDimensions' = extractDimensions(data)
                 /\ currentDataTypes' = detectDataTypes(data, extractDimensions(data))
                 /\ container' = drawVisualization(container, currentDimensions',
                                                   currentDataTypes', data, clientWidth)
                 /\ fixedPage' = [currentDataset |-> l.year, currentData |-> data,
                                  container |-> drawVisualizationStatic(
                                    fixedPage.container, l.year, data, clientWidth)]
            ELSE UNCHANGED pages
  /\ UNCHANGED <<timing, ui, clientWidth, started, escaped>>

\* a continuation that infers the types over the dimensions of the load before
JsonOkStaleTypes(id, data) ==
  /\ \E l \in loads :
       /\ l.id = id
       /\ l.pc = "json"
       /\ loads' = loads \ {l}
       /\ lastResolved' = [id |-> id, year |-> l.year, data |-> data,
                          prev |-> lastResolved.id]
       /\ currentData' = data
       /\ currentDataset' = l.year
       /\ currentDataTypes' = detectDataTypes(data, currentDimensions)
       /\ currentDimensions' = extractDimensions(data)
       /\ container' = drawVisualization(container, currentDimensions',
                                         detectDataTypes(data, currentDimensions'),
                                         data, clientWidth)
       /\ fixedPage' = [currentDataset |-> l.year, currentData |-> data,
                        container |-> drawVisualizationStatic(
                          fixedPage.container, l.year, data, clientWidth)]
  /\ UNCHANGED <<timing, ui, clientWidth, started, escaped>>

\* response.json() resolves with `data`: the rest of the try block runs
JsonOk(id, data) ==
  /\ \E l \in loads :
       /\ l.id = id
       /\ l.pc = "json"
       /\ loads' = loads \ {l}
       /\ lastResolved' = [id |-> id, year |-> l.year, data |-> data,
                          prev |-> lastResolved.id]
       /\ currentData' = data
       /\ currentDataset' = l.year
       /\ currentDimensions' = extractDimensions(data)
       /\ currentDataTypes' = detectDataTypes(data, currentDimensions')
       /\ container' = drawVisualization(container, currentDimensions',
                                         currentDataTypes', data, clientWidth)
       /\ fixedPage' = [currentDataset |-> l.year, currentData |-> data,
                        container |-> drawVisualizationStatic(
                          fixedPage.container, l.year, data, clientWidth)]
  /\ UNCHANGED <<timing, ui, clientWidth, started, escaped>>

CatchClearsState(l) ==
  /\ loads' = loads \ {l}
  /\ container' = <<ErrorP>>
  /\ currentData' = <<>>
  /\ UNCHANGED <<currentDataset, currentDimensions, currentDataTypes>>
  /\ fixedPage' = [fixedPage EXCEPT !.container = <<ErrorP>>, !.currentData = <<>>]
  /\ UNCHANGED <<timing, ui, clientWidth, started, lastResolved, escaped>>

\* the catch block: the call ends normally, its promise is fulfilled
Catch(l) ==
  /\ loads' = loads \ {l}
  /\ container' = <<ErrorP>>
  /\ fixedPage' = [fixedPage EXCEPT !.container = <<ErrorP>>]
  /\ UNCHANGED <<slots, timing, ui, clientWidth, started, lastResolved, escaped>>

\* the fetch rejects (network failure)
FetchFail(id) == \E l \in loads : l.id = id /\ l.pc = "fetch" /\ Catch(l)

\* response.json() rejects (the body is not JSON)
JsonFail(id) == \E l \in loads : l.id = id /\ l.pc = "json" /\ Catch(l)

(***************************************************************************)
(* Click listeners.                                                        *)
(***************************************************************************)
ClickKeepsOthers(year) ==
  /\ started < MaxLoads
  /\ active' = active \cup {year}
  /\ lastClicked' = year
  /\ StartLoad(year)
  /\ UNCHANGED <<pages, timing, clientWidth, lastResolved, escaped>>

ClickSetsDataset(year) ==
  /\ started < MaxLoads
  /\ active' = (active \ DatasetBtns) \cup {year}
  /\ lastClicked' = year
  /\ StartLoad(year)
  /\ currentDataset' = year
  /\ fixedPage' = [fixedPage EXCEPT !.currentDataset = year]
  /\ UNCHANGED <<currentData, currentDimensions, currentDataTypes, container>>
  /\ UNCHANGED <<timing, clientWidth, lastResolved, escaped>>

\* the click listener of btn-<year>
Click(year) ==
  /\ started < MaxLoads
  /\ active' = (active \ DatasetBtns) \cup {year}
  /\ lastClicked' = year
  /\ StartLoad(year)
  /\ UNCHANGED <<pages, timing, clientWidth, lastResolved, escaped>>

(***************************************************************************)
(* Resize listener, its timer, and the passage of time.                    *)
(***************************************************************************)
ClearTimeoutNoop(ts, handle) == ts

\* clearTimeout(handle): no effect when no such timeout is scheduled
ClearTimeout(ts, handle) == {t \in ts : t.id # handle}

\* the handle setTimeout returns; a handle is only compared for identity, and
\* the listener overwrites resizeTimeout before it is used again
NewHandle(ts) ==
  CHOOSE i \in 1..(Cardinality(ts) + 1) : \A t \in ts : t.id # i

Due(ts) == {t \in ts : t.left = 0}

\* a resize event with the container `w` wide; a timeout that is due runs
\* before an event that arrives at the same instant
Resize(w) ==
  /\ Due(timers) = {}
  /\ clientWidth' = w
  /\ LET kept == ClearTimeout(timers, resizeTimeout)
         id == NewHandle(kept)
     IN /\ timers' = kept \cup {[id |-> id, left |-> ResizeDelay]}
        /\ resizeTimeout' = id
  /\ burst' = IF sinceResize >= ResizeDelay
                THEN [events |-> "one", redraws |-> 0, loaded |-> Truthy(currentDataset)]
                ELSE [burst EXCEPT !.events = "several"]
  /\ sinceResize' = 0
  /\ UNCHANGED <<pages, loading, ui>>

TimerCallbackAlwaysDraws(dataset) == TRUE

\* if (currentDataset)
TimerCallbackDraws(dataset) == Truthy(dataset)

\* the timeout callback of the resize listener, in each of the two pages
TimerFire ==
  \E t \in Due(timers) :
    /\ timers' = timers \ {t}
    /\ container' =
         IF TimerCallbackDraws(currentDataset)
           THEN drawVisualization(container, currentDimensions, currentDataTypes,
                                  currentData, clientWidth)
           ELSE container
    /\ fixedPage' =
         IF TimerCallbackDraws(fixedPage.currentDataset)
           THEN [fixedPage EXCEPT !.container =
                   drawVisualizationStatic(@, fixedPage.currentDataset,
                                           fixedPage.currentData, clientWidth)]
           ELSE fixedPage
    /\ burst' = IF TimerCallbackDraws(currentDataset)
                  THEN [burst EXCEPT !.redraws = @ + 1]
                  ELSE burst
    /\ UNCHANGED <<slots, resizeTimeout, sinceResize, loading, ui, clientWidth>>

\* time passes, at most up to the next timeout
Tick ==
  LET d == IF timers = {} THEN TickMs
           ELSE Min(TickMs, CHOOSE m \in {t.left : t \in timers} :
                              \A t \in timers : m <= t.left)
  IN /\ d > 0
     /\ timers # {} \/ sinceResize < ResizeDelay
     /\ timers' = {[t EXCEPT !.left = @ - d] : t \in timers}
     /\ sinceResize' = Min(ResizeDelay, sinceResize + d)
     /\ UNCHANGED <<pages, resizeTimeout, burst, loading, ui, clientWidth>>

(***************************************************************************)
(* Specifications.                                                         *)
(***************************************************************************)
Next ==
  \/ \E year \in Years : Click(year)
  \/ \E l \in loads : FetchOk(l.id)
  \/ \E l \in loads : FetchFail(l.id)
  \/ \E l \in loads : \E data \in Files(l.year) : JsonOk(l.id, data)
  \/ \E l \in loads : JsonFail(l.id)
  \/ \E w \in Widths : Resize(w)
  \/ TimerFire
  \/ Tick

Spec == Init /\ [][Next]_vars

\* the page loads one file, drawn from the exhaustive bounded datasets
NextData ==
  \/ \E l \in loads : FetchOk(l.id)
  \/ \E l \in loads : \E data \in BoundedDatasets : JsonOk(l.id, data)

SpecData == Init /\ [][NextData]_vars

(***************************************************************************)
(* Steps, named by what they leave in the history.                         *)
(***************************************************************************)
\* the resize timeout callback called drawVisualization in this step
RedrawStep == burst'.redraws = burst.redraws + 1

\* a loadDataset call ended in its catch block in this step
FailedStep ==
  \E l \in loads : (\A m \in loads' : m.id # l.id) /\ lastResolved'.id # l.id

\* a loadDataset call ran the rest of its try block in this step
ResolvedStep == lastResolved'.id # lastResolved.id

\* some loadDataset call is suspended before and after this step
StaysPending == \E l \in loads : \E m \in loads' : m.id = l.id

IsChart(children) == Len(children) = 1 /\ children[1].kind = "svg"

(***************************************************************************)
(* C1: a burst of resize events, each less than 250 ms after the previous  *)
(* one, leads to exactly one drawVisualization call when a dataset is      *)
(* loaded: every event cancels the timeout of the previous one, so at most *)
(* one timeout is scheduled, it is the one of the last event, and the      *)
(* redraw runs only when 250 ms have passed since that event, at the       *)
(* container size of that event.                                           *)
(***************************************************************************)
C1_State ==
  /\ Cardinality(timers) <= 1
  /\ burst.redraws <= 1
  /\ \A t \in timers :
       /\ t.id = resizeTimeout
       /\ t.left = ResizeDelay - sinceResize
       /\ burst.redraws = 0
  /\ (timers = {} /\ burst.events # "none" /\ burst.loaded) => burst.redraws = 1
  /\ (timers = {} /\ IsChart(container)) =>
       container[1].svgWidth =
         LayoutWidth(clientWidth, Len(currentDimensions)) + MarginSide + MarginSide

C1_DebouncedRedraw ==
  /\ []C1_State
  /\ [][RedrawStep => sinceResize = ResizeDelay]_vars

\* a burst of several events has ended in its one redraw, at the last size
C1_Witness ==
  /\ burst.events = "several"
  /\ burst.loaded
  /\ timers = {}
  /\ burst.redraws = 1
  /\ IsChart(container)
  /\ lastResolved.id = 1 /\ started = 1
  /\ container[1].svgWidth # LayoutWidth(300, Len(currentDimensions)) + MarginSide + MarginSide

(***************************************************************************)
(* C2: when the fetch or the JSON parse of a loadDataset call fails, the   *)
(* failure is caught inside the call: the container holds the error        *)
(* message, no exception escapes, and currentDataset, currentData,         *)
(* currentDimensions and currentDataTypes keep their values.               *)
(***************************************************************************)
C2_FailureCaught ==
  [][FailedStep =>
       /\ container' = <<ErrorP>>
       /\ fixedPage' = [fixedPage EXCEPT !.container = <<ErrorP>>]
       /\ slots' = slots
       /\ escaped' = {}]_vars

\* a load has failed after an earlier one had succeeded
C2_Witness ==
  /\ container = <<ErrorP>>
  /\ fixedPage.container = <<ErrorP>>
  /\ currentDataset = 2012
  /\ currentData = D2012
  /\ loads = {}

(***************************************************************************)
(* C3 as stated: while a fetch stays pending, no step changes              *)
(* currentDataset, currentData, currentDimensions, currentDataTypes or the *)
(* content of the container.                                               *)
(***************************************************************************)
C3_NothingChangesWhilePending ==
  [][StaysPending => UNCHANGED <<slots, container>>]_vars

(***************************************************************************)
(* C3 amended: while a fetch stays pending, the four state slots change    *)
(* only in a step in which another load resolves successfully, and the     *)
(* content of the container changes only in such a step, in a step in      *)
(* which another load fails, or when the resize timeout redraws; clicks,   *)
(* resize events, the passage of time and the progress of a pending fetch  *)
(* change none of them.                                                    *)
(***************************************************************************)
C3_ChangesWhilePending ==
  [][StaysPending =>
       /\ (slots' # slots => ResolvedStep)
       /\ (<<fixedPage.currentDataset, fixedPage.currentData>>' #
             <<fixedPage.currentDataset, fixedPage.currentData>> => ResolvedStep)
       /\ (container' # container => ResolvedStep \/ FailedStep \/ RedrawStep)
       /\ (fixedPage.container' # fixedPage.container =>
             ResolvedStep \/ FailedStep \/ RedrawStep)]_vars

\* the first load is still pending; a later one has resolved and been drawn,
\* and the resize timeout has redrawn its chart since
C3_Witness ==
  /\ \E l \in loads : l.id = 1
  /\ lastResolved.id = 2
  /\ burst.redraws = 1
  /\ ~burst.loaded
  /\ IsChart(container)

(***************************************************************************)
(* C4: with two loads pending at once, the state and the chart left are    *)
(* those of the load whose response resolved last, whatever the order of   *)
(* the requests.                                                           *)
(***************************************************************************)
C4_LastResolvedWins ==
  lastResolved.id # 0 =>
    /\ currentDataset = lastResolved.year
    /\ currentData = lastResolved.data
    /\ currentDimensions = extractDimensions(lastResolved.data)
    /\ currentDataTypes = detectDataTypes(lastResolved.data, currentDimensions)
    /\ fixedPage.currentDataset = lastResolved.year
    /\ fixedPage.currentData = lastResolved.data
    /\ IsChart(container) =>
         \E w \in Widths :
           container = drawVisualization(<<>>, currentDimensions, currentDataTypes,
                                         lastResolved.data, w)
    /\ IsChart(fixedPage.container) =>
         \E w \in Widths :
           fixedPage.container =
             drawVisualizationStatic(<<>>, lastResolved.year, lastResolved.data, w)

\* A (2012) was requested before B (2019, the button now active), both have
\* resolved, B first: A's data is displayed
C4_Witness ==
  /\ loads = {}
  /\ lastResolved.id = 1
  /\ lastResolved.prev = 2
  /\ lastClicked = 2019
  /\ active = {2019}
  /\ currentDataset = 2012
  /\ IsChart(container)
  /\ container[1].records = Len(D2012)

\* the other outcome: both have resolved, B last, and B's data is displayed
C4_InOrderOutcome ==
  /\ loads = {}
  /\ lastResolved.id = 2
  /\ lastResolved.prev = 1
  /\ lastClicked = 2019
  /\ currentDataset = 2019
  /\ IsChart(container)

(***************************************************************************)
(* C5: the resize timeout calls drawVisualization only if a dataset is     *)
(* loaded when it fires; while no load has ever succeeded (currentDataset  *)
(* is null), resize events and timeouts leave the container as it is.      *)
(***************************************************************************)
C5_State == (lastResolved.id = 0) <=> ~Truthy(currentDataset)

C5_RedrawOnlyWhenLoaded ==
  /\ []C5_State
  /\ [][/\ RedrawStep => Truthy(currentDataset)
        /\ (~Truthy(currentDataset) /\ ~FailedStep /\ ~ResolvedStep) =>
             /\ container' = container
             /\ fixedPage.container' = fixedPage.container]_vars

\* the timeout of a burst has run while no dataset was loaded
C5_Witness ==
  /\ ~Truthy(currentDataset)
  /\ burst.events = "several"
  /\ timers = {}
  /\ burst.redraws = 0
  /\ container = <<Placeholder>>

(***************************************************************************)
(* C6: after any sequence of clicks, exactly one selection control carries *)
(* the active indicator, and it is the one clicked last.                   *)
(***************************************************************************)
C6_OneActive == lastClicked # NoDataset => active = {lastClicked}

\* btn-2019 was clicked and its dataset is drawn
C6_Witness ==
  /\ lastClicked = 2019
  /\ active = {2019}
  /\ lastResolved.id = 2
  /\ currentDataset = 2019

(***************************************************************************)
(* C7: detectDataTypes labels a dimension "numeric" if and only if its     *)
(* values that are neither null nor undefined are at least one and each    *)
(* converts to a finite number; otherwise "nominal", so a column with      *)
(* only missing values is "nominal".                                       *)
(***************************************************************************)
NonMissing(data, dim) ==
  {i \in 1..Len(data) : Get(data[i], dim) # Null /\ Get(data[i], dim) # Undefined}

ConvertsToFinite(v) == ToNumber(v).k = "fin"

C7_NumericIff ==
  /\ DOMAIN currentDataTypes = Range(currentDimensions)
  /\ \A dim \in Range(currentDimensions) :
       /\ currentDataTypes[dim] \in {"numeric", "nominal"}
       /\ currentDataTypes[dim] = "numeric" <=>
            /\ NonMissing(currentData, dim) # {}
            /\ \A i \in NonMissing(currentData, dim) :
                 ConvertsToFinite(Get(currentData[i], dim))

\* a column of two records, null in the first and absent from the second
C7_Witness ==
  /\ currentDimensions = <<"gpa">>
  /\ Len(currentData) = 2
  /\ Get(currentData[1], "gpa") = Null
  /\ Get(currentData[2], "gpa") = Undefined
  /\ currentDataTypes["gpa"] = "nominal"

(***************************************************************************)
(* C8: for a dataset of 2012 or 2019 whose first record's keys are, in     *)
(* order, the static dimension list of that year and whose inferred column *)
(* types equal the static type table, script.js and part_000 have, after   *)
(* the same events, the same dimension list, the same type map and the     *)
(* same drawn output.                                                      *)
(***************************************************************************)
Matches(year, data) ==
  /\ year \in Years
  /\ Len(data) > 0
  /\ ObjectKeys(data[1]) = dimensions[year]
  /\ \A dim \in Range(dimensions[year]) :
       dataTypes[year][dim] = "numeric" <=>
         /\ NonMissing(data, dim) # {}
         /\ \A i \in NonMissing(data, dim) : ConvertsToFinite(Get(data[i], dim))

C8_SamePipeline ==
  Matches(currentDataset, currentData) =>
    /\ fixedPage.currentDataset = currentDataset
    /\ fixedPage.currentData = currentData
    /\ currentDimensions = dimensions[fixedPage.currentDataset]
    /\ currentDataTypes = dataTypes[fixedPage.currentDataset]
    /\ container = fixedPage.container

\* the 2019 file loaded after a click and redrawn by the resize timeout
C8_Witness ==
  /\ Matches(currentDataset, currentData)
  /\ currentDataset = 2019
  /\ burst.redraws = 1
  /\ timers = {}
  /\ IsChart(container)
  /\ Len(container[1].paths) = 2
  /\ container = fixedPage.container

(***************************************************************************)
(* C9: for every record, the vertex list has exactly one vertex per        *)
(* dimension whose value in the record is neither null nor undefined, in   *)
(* dimension order, and a path is drawn through them if and only if there  *)
(* are at least 2.                                                         *)
(***************************************************************************)
PresentDims(row, dims) ==
  SelectSeq(dims, LAMBDA dim : Get(row, dim) # Null /\ Get(row, dim) # Undefined)

VertexDims(points) == [j \in 1..Len(points) |-> points[j].y.dim]

\* the chart `children` holds the paths of `data` over `dims`
PathsAsClaimed(children, data, dims) ==
  LET rows == SelectSeq(data, LAMBDA row : Len(PresentDims(row, dims)) >= 2)
      paths == children[1].paths
  IN /\ Len(paths) = Len(rows)
     /\ \A k \in 1..Len(rows) :
          /\ VertexDims(paths[k].d) = PresentDims(rows[k], dims)
          /\ \A j \in 1..Len(paths[k].d) :
               paths[k].d[j].y.value = Get(rows[k], paths[k].d[j].y.dim)

C9_VerticesAndPaths ==
  /\ \A r \in 1..Len(currentData) :
       LET width == LayoutWidth(clientWidth, Len(currentDimensions))
           points == Points(currentData[r], currentDimensions, width)
       IN VertexDims(points) = PresentDims(currentData[r], currentDimensions)
  /\ IsChart(container) => PathsAsClaimed(container, currentData, currentDimensions)
  /\ IsChart(fixedPage.container) =>
       PathsAsClaimed(fixedPage.container, fixedPage.currentData,
                      dimensions[fixedPage.currentDataset])

\* a record with the middle one of 3 dimensions null: a path of 2 vertices
C9_Witness ==
  /\ currentDimensions = <<"gpa", "age", "gender">>
  /\ Len(currentData) = 1
  /\ Get(currentData[1], "age") = Null
  /\ IsChart(container)
  /\ Len(container[1].paths) = 1
  /\ Len(container[1].paths[1].d) = 2
  /\ IsChart(fixedPage.container)
  /\ Len(fixedPage.container[1].paths) = 1

(***************************************************************************)
(* C10: for every non-empty dimension list of length n and every container *)
(* width, each dimension has a well-defined horizontal position, the n     *)
(* positions are evenly spaced across [0, width] with                      *)
(* width = max(container width - padding - margins, n * 100), and nothing  *)
(* is divided by zero, n = 1 included.                                     *)
(***************************************************************************)
C10_EvenPositions ==
  (IsChart(container) /\ Len(currentDimensions) >= 1) =>
    LET n == Len(currentDimensions)
        width == Max(clientWidth - 40 - 180 - 180, n * 100)
        x == [i \in 1..n |-> container[1].axes[i].x]
        gap(i) == x[i + 1].num * x[i].den - x[i].num * x[i + 1].den
        unit(i) == x[i + 1].den * x[i].den
    IN /\ Len(container[1].axes) = n
       /\ container[1].svgWidth = width + 180 + 180
       /\ \A i \in 1..n : x[i].k = "fin" /\ x[i].den > 0
       /\ n >= 2 => /\ x[1].num = 0
                    /\ x[n].num = width * x[n].den
                    /\ \A i \in 1..(n - 1) : gap(i) * unit(1) = gap(1) * unit(i)

\* the same statement for lists of at least 2 dimensions
C10_EvenPositionsFrom2 == Len(currentDimensions) # 1 => C10_EvenPositions

(***************************************************************************)
(* C11: every drawVisualization call, after a successful load or from the  *)
(* resize timeout, leaves in the container exactly one chart, the one      *)
(* built from the state and the container size at the time of the call;    *)
(* nothing of an earlier chart, of an error message or of the initial      *)
(* content remains, so the container never holds more than one element.    *)
(***************************************************************************)
DrawStep == ResolvedStep \/ RedrawStep

C11_State ==
  /\ Len(container) <= 1
  /\ Len(fixedPage.container) <= 1

C11_ClearAndRebuild ==
  /\ []C11_State
  /\ [][DrawStep =>
         /\ container' = <<Svg(currentDimensions', currentDataTypes',
                               currentData', clientWidth')>>
         /\ fixedPage.container' =
              <<Svg(dimensions[fixedPage.currentDataset'],
                    dataTypes[fixedPage.currentDataset'],
                    fixedPage.currentData', clientWidth')>>]_vars

\* load 1 has succeeded and load 2 has failed, in either order, and the resize
\* timeout has since redrawn at the other container size: one chart, no message
C11_Witness ==
  /\ loads = {}
  /\ started = 2
  /\ lastResolved.id = 1
  /\ lastResolved.prev = 0
  /\ burst.redraws = 1
  /\ timers = {}
  /\ Len(container) = 1
  /\ IsChart(container)
  /\ container[1].svgWidth =
       LayoutWidth(clientWidth, Len(currentDimensions)) + MarginSide + MarginSide
  /\ IsChart(fixedPage.container)

(***************************************************************************)
(* C12: between event handlers the four state slots of script.js come from *)
(* one load: before the first successful load they hold their initial      *)
(* values; afterwards currentData is the response parsed last, which is a  *)
(* file of the dataset named by currentDataset, currentDimensions is       *)
(* extractDimensions(currentData) and currentDataTypes is                  *)
(* detectDataTypes(currentData, currentDimensions).                        *)
(***************************************************************************)
C12_SlotsFromOneLoad ==
  /\ currentDimensions = extractDimensions(currentData)
  /\ currentDataTypes = detectDataTypes(currentData, currentDimensions)
  /\ IF currentDataset = NoDataset
       THEN /\ currentData = <<>>
            /\ lastResolved.id = 0
       ELSE /\ currentDataset \in Years
            /\ currentData \in Files(currentDataset)
            /\ lastResolved.year = currentDataset
            /\ lastResolved.data = currentData

\* load 2 (2019, started while load 1 was pending) has resolved and has been
\* redrawn by the resize timeout, then load 1 has failed: the slots are all
\* those of load 2
C12_Witness ==
  /\ loads = {}
  /\ started = 2
  /\ lastResolved.id = 2
  /\ lastResolved.prev = 0
  /\ burst.redraws = 1
  /\ container = <<ErrorP>>
  /\ currentDataset = 2019
  /\ currentData = D2019AgeNumeric
  /\ currentDimensions = dimensions[2019]
  /\ currentDataTypes["age_range"] = "numeric"

====
